---- MODULE Spec2Model ----
(***************************************************************************)
(* Projectile range optimiser of Tugas-Besar/tubes.py: the right-hand side *)
(* f of the equations of motion, the classical Runge-Kutta step RK4_step,  *)
(* the trajectory loop projectile_motion, and the two-pass angle sweep     *)
(* find_optimal_angle with its landing-point interpolation.                *)
(*                                                                         *)
(* Numbers.  The program computes in numpy float64.  A float is modelled   *)
(* as a record: [c |-> "fin", v |-> n] is the finite value n / S (fixed    *)
(* point, rounded downwards), [c |-> "nan"] is NaN and [c |-> "inf"] with  *)
(* v = 1 or v = -1 is +inf or -inf.  The arithmetic operators follow       *)
(* IEEE-754 on the special values (numpy warns and carries on: sqrt of a   *)
(* negative is NaN, x / 0 is +-inf or NaN, every comparison with NaN is    *)
(* false).  Signed zeros are not distinguished.                            *)
(*                                                                         *)
(* Angles are integers in tenths of a degree; the step length h is an      *)
(* integer number of seconds.  Python's w[0..3] is w[1..4] here.           *)
(***************************************************************************)
EXTENDS Integers, Sequences, FiniteSets, TLC

\* ------------------------------------------------------------------ bounds
\* The step lengths tried are the whole seconds -NegH .. MaxH.
NegH == 1
MaxH == 6
\* projectile_motion's loop has no bound of its own; the model stops
\* appending once a trajectory holds MaxSamples samples.
MaxSamples == 320
\* The sweep harness evaluates the first EstIters angles of each pass.
EstIters == 2

\* --------------------------------------------------------------- float64
S == 100

Fin(n) == [c |-> "fin", v |-> n]
NaN == [c |-> "nan", v |-> 0]
PInf == [c |-> "inf", v |-> 1]
NInf == [c |-> "inf", v |-> 0 - 1]
Zero == Fin(0)

IsNaN(x) == x.c = "nan"
IsFin(x) == x.c = "fin"
Sgn(n) == IF n > 0 THEN 1 ELSE IF n < 0 THEN 0 - 1 ELSE 0

\* floor(x * p / q) for q > 0, without forming x * p.
MulDiv(x, p, q) == (x \div q) * p + ((x % q) * p) \div q

\* floor(x * y / S) for fixed-point x and y, without forming x * y.
MulFix(x, y) ==
    LET x1 == x \div S
        x0 == x % S
        y1 == y \div S
        y0 == y % S
    IN  x1 * y1 * S + x1 * y0 + x0 * y1 + (x0 * y0) \div S

RECURSIVE ISqrtBetween(_, _, _)
ISqrtBetween(n, lo, hi) ==
    IF lo >= hi THEN lo
    ELSE LET mid == (lo + hi + 1) \div 2
         IN  IF mid * mid <= n THEN ISqrtBetween(n, mid, hi)
             ELSE ISqrtBetween(n, lo, mid - 1)

\* floor(sqrt(n)) for 0 <= n < 2^31.
ISqrt(n) == ISqrtBetween(n, 0, 46340)

Neg(x) == IF IsNaN(x) THEN NaN ELSE [c |-> x.c, v |-> 0 - x.v]

Add(x, y) ==
    CASE IsNaN(x) \/ IsNaN(y) -> NaN
      [] IsFin(x) /\ IsFin(y) -> Fin(x.v + y.v)
      [] IsFin(x) -> y
      [] IsFin(y) -> x
      [] OTHER -> IF x.v = y.v THEN x ELSE NaN

Sub(x, y) == Add(x, Neg(y))

Mul(x, y) ==
    CASE IsNaN(x) \/ IsNaN(y) -> NaN
      [] IsFin(x) /\ IsFin(y) -> Fin(MulFix(x.v, y.v))
      [] OTHER -> IF Sgn(x.v) * Sgn(y.v) = 0 THEN NaN
                  ELSE [c |-> "inf", v |-> Sgn(x.v) * Sgn(y.v)]

\* (p / q) * x for the rational p / q, q > 0: a float times a program
\* constant, a small integer or the step length.
Scale(x, p, q) ==
    CASE IsNaN(x) -> NaN
      [] IsFin(x) -> Fin(MulDiv(x.v, p, q))
      [] OTHER -> IF p = 0 THEN NaN ELSE [c |-> "inf", v |-> x.v * Sgn(p)]

\* x / y as numpy divides float64 scalars: no exception on y = 0.
Div(x, y) ==
    CASE IsNaN(x) \/ IsNaN(y) -> NaN
      [] IsFin(x) /\ IsFin(y) ->
            IF y.v = 0
            THEN (IF x.v = 0 THEN NaN ELSE [c |-> "inf", v |-> Sgn(x.v)])
            ELSE IF y.v > 0 THEN Fin(MulDiv(x.v, S, y.v))
            ELSE Fin(MulDiv(0 - x.v, S, 0 - y.v))
      [] IsFin(x) -> Zero
      [] IsFin(y) -> [c |-> "inf", v |-> x.v * (IF y.v < 0 THEN 0 - 1 ELSE 1)]
      [] OTHER -> NaN

\* np.sqrt: NaN (and a warning) for a negative argument.
Sqrt(x) ==
    CASE IsNaN(x) -> NaN
      [] IsFin(x) -> IF x.v < 0 THEN NaN ELSE Fin(ISqrt(x.v * S))
      [] OTHER -> IF x.v > 0 THEN PInf ELSE NaN

\* x > y and x >= y: false whenever an operand is NaN.
Gt(x, y) ==
    CASE IsNaN(x) \/ IsNaN(y) -> FALSE
      [] IsFin(x) /\ IsFin(y) -> x.v > y.v
      [] IsFin(x) -> y.v < 0
      [] IsFin(y) -> x.v > 0
      [] OTHER -> x.v > y.v

Ge(x, y) ==
    CASE IsNaN(x) \/ IsNaN(y) -> FALSE
      [] OTHER -> Gt(x, y) \/ x = y

\* ------------------------------------------------------------- constants
g == 981
a_num == 65
a_den == 10000
T_0 == 288
m == 50
B_num == 2
B_den == 1000
v_0 == 1640

\* k ** alpha with alpha = 2.5: k * k * sqrt(k), NaN for a negative base.
PowAlpha(k) == Mul(Mul(k, k), Sqrt(k))

\* Wind strength V = np.zeros(2).
V == <<Zero, Zero>>

\* ------------------------------------------------------------------ trig
TrigScale == 10000

\* round(TrigScale * sin(t / 10 degrees)) for t = 0 .. 900, at index t + 1.
SinTable ==
    <<
       0, 17, 35, 52, 70, 87, 105, 122, 140, 157, 175, 192, 209, 227, 244,
       262, 279, 297, 314, 332, 349, 366, 384, 401, 419, 436, 454, 471, 488, 506,
       523, 541, 558, 576, 593, 610, 628, 645, 663, 680, 698, 715, 732, 750, 767,
       785, 802, 819, 837, 854, 872, 889, 906, 924, 941, 958, 976, 993, 1011, 1028,
       1045, 1063, 1080, 1097, 1115, 1132, 1149, 1167, 1184, 1201, 1219, 1236, 1253, 1271, 1288,
       1305, 1323, 1340, 1357, 1374, 1392, 1409, 1426, 1444, 1461, 1478, 1495, 1513, 1530, 1547,
       1564, 1582, 1599, 1616, 1633, 1650, 1668, 1685, 1702, 1719, 1736, 1754, 1771, 1788, 1805,
       1822, 1840, 1857, 1874, 1891, 1908, 1925, 1942, 1959, 1977, 1994, 2011, 2028, 2045, 2062,
       2079, 2096, 2113, 2130, 2147, 2164, 2181, 2198, 2215, 2233, 2250, 2267, 2284, 2300, 2317,
       2334, 2351, 2368, 2385, 2402, 2419, 2436, 2453, 2470, 2487, 2504, 2521, 2538, 2554, 2571,
       2588, 2605, 2622, 2639, 2656, 2672, 2689, 2706, 2723, 2740, 2756, 2773, 2790, 2807, 2823,
       2840, 2857, 2874, 2890, 2907, 2924, 2940, 2957, 2974, 2990, 3007, 3024, 3040, 3057, 3074,
       3090, 3107, 3123, 3140, 3156, 3173, 3190, 3206, 3223, 3239, 3256, 3272, 3289, 3305, 3322,
       3338, 3355, 3371, 3387, 3404, 3420, 3437, 3453, 3469, 3486, 3502, 3518, 3535, 3551, 3567,
       3584, 3600, 3616, 3633, 3649, 3665, 3681, 3697, 3714, 3730, 3746, 3762, 3778, 3795, 3811,
       3827, 3843, 3859, 3875, 3891, 3907, 3923, 3939, 3955, 3971, 3987, 4003, 4019, 4035, 4051,
       4067, 4083, 4099, 4115, 4131, 4147, 4163, 4179, 4195, 4210, 4226, 4242, 4258, 4274, 4289,
       4305, 4321, 4337, 4352, 4368, 4384, 4399, 4415, 4431, 4446, 4462, 4478, 4493, 4509, 4524,
       4540, 4555, 4571, 4586, 4602, 4617, 4633, 4648, 4664, 4679, 4695, 4710, 4726, 4741, 4756,
       4772, 4787, 4802, 4818, 4833, 4848, 4863, 4879, 4894, 4909, 4924, 4939, 4955, 4970, 4985,
       5000, 5015, 5030, 5045, 5060, 5075, 5090, 5105, 5120, 5135, 5150, 5165, 5180, 5195, 5210,
       5225, 5240, 5255, 5270, 5284, 5299, 5314, 5329, 5344, 5358, 5373, 5388, 5402, 5417, 5432,
       5446, 5461, 5476, 5490, 5505, 5519, 5534, 5548, 5563, 5577, 5592, 5606, 5621, 5635, 5650,
       5664, 5678, 5693, 5707, 5721, 5736, 5750, 5764, 5779, 5793, 5807, 5821, 5835, 5850, 5864,
       5878, 5892, 5906, 5920, 5934, 5948, 5962, 5976, 5990, 6004, 6018, 6032, 6046, 6060, 6074,
       6088, 6101, 6115, 6129, 6143, 6157, 6170, 6184, 6198, 6211, 6225, 6239, 6252, 6266, 6280,
       6293, 6307, 6320, 6334, 6347, 6361, 6374, 6388, 6401, 6414, 6428, 6441, 6455, 6468, 6481,
       6494, 6508, 6521, 6534, 6547, 6561, 6574, 6587, 6600, 6613, 6626, 6639, 6652, 6665, 6678,
       6691, 6704, 6717, 6730, 6743, 6756, 6769, 6782, 6794, 6807, 6820, 6833, 6845, 6858, 6871,
       6884, 6896, 6909, 6921, 6934, 6947, 6959, 6972, 6984, 6997, 7009, 7022, 7034, 7046, 7059,
       7071, 7083, 7096, 7108, 7120, 7133, 7145, 7157, 7169, 7181, 7193, 7206, 7218, 7230, 7242,
       7254, 7266, 7278, 7290, 7302, 7314, 7325, 7337, 7349, 7361, 7373, 7385, 7396, 7408, 7420,
       7431, 7443, 7455, 7466, 7478, 7490, 7501, 7513, 7524, 7536, 7547, 7559, 7570, 7581, 7593,
       7604, 7615, 7627, 7638, 7649, 7660, 7672, 7683, 7694, 7705, 7716, 7727, 7738, 7749, 7760,
       7771, 7782, 7793, 7804, 7815, 7826, 7837, 7848, 7859, 7869, 7880, 7891, 7902, 7912, 7923,
       7934, 7944, 7955, 7965, 7976, 7986, 7997, 8007, 8018, 8028, 8039, 8049, 8059, 8070, 8080,
       8090, 8100, 8111, 8121, 8131, 8141, 8151, 8161, 8171, 8181, 8192, 8202, 8211, 8221, 8231,
       8241, 8251, 8261, 8271, 8281, 8290, 8300, 8310, 8320, 8329, 8339, 8348, 8358, 8368, 8377,
       8387, 8396, 8406, 8415, 8425, 8434, 8443, 8453, 8462, 8471, 8480, 8490, 8499, 8508, 8517,
       8526, 8536, 8545, 8554, 8563, 8572, 8581, 8590, 8599, 8607, 8616, 8625, 8634, 8643, 8652,
       8660, 8669, 8678, 8686, 8695, 8704, 8712, 8721, 8729, 8738, 8746, 8755, 8763, 8771, 8780,
       8788, 8796, 8805, 8813, 8821, 8829, 8838, 8846, 8854, 8862, 8870, 8878, 8886, 8894, 8902,
       8910, 8918, 8926, 8934, 8942, 8949, 8957, 8965, 8973, 8980, 8988, 8996, 9003, 9011, 9018,
       9026, 9033, 9041, 9048, 9056, 9063, 9070, 9078, 9085, 9092, 9100, 9107, 9114, 9121, 9128,
       9135, 9143, 9150, 9157, 9164, 9171, 9178, 9184, 9191, 9198, 9205, 9212, 9219, 9225, 9232,
       9239, 9245, 9252, 9259, 9265, 9272, 9278, 9285, 9291, 9298, 9304, 9311, 9317, 9323, 9330,
       9336, 9342, 9348, 9354, 9361, 9367, 9373, 9379, 9385, 9391, 9397, 9403, 9409, 9415, 9421,
       9426, 9432, 9438, 9444, 9449, 9455, 9461, 9466, 9472, 9478, 9483, 9489, 9494, 9500, 9505,
       9511, 9516, 9521, 9527, 9532, 9537, 9542, 9548, 9553, 9558, 9563, 9568, 9573, 9578, 9583,
       9588, 9593, 9598, 9603, 9608, 9613, 9617, 9622, 9627, 9632, 9636, 9641, 9646, 9650, 9655,
       9659, 9664, 9668, 9673, 9677, 9681, 9686, 9690, 9694, 9699, 9703, 9707, 9711, 9715, 9720,
       9724, 9728, 9732, 9736, 9740, 9744, 9748, 9751, 9755, 9759, 9763, 9767, 9770, 9774, 9778,
       9781, 9785, 9789, 9792, 9796, 9799, 9803, 9806, 9810, 9813, 9816, 9820, 9823, 9826, 9829,
       9833, 9836, 9839, 9842, 9845, 9848, 9851, 9854, 9857, 9860, 9863, 9866, 9869, 9871, 9874,
       9877, 9880, 9882, 9885, 9888, 9890, 9893, 9895, 9898, 9900, 9903, 9905, 9907, 9910, 9912,
       9914, 9917, 9919, 9921, 9923, 9925, 9928, 9930, 9932, 9934, 9936, 9938, 9940, 9942, 9943,
       9945, 9947, 9949, 9951, 9952, 9954, 9956, 9957, 9959, 9960, 9962, 9963, 9965, 9966, 9968,
       9969, 9971, 9972, 9973, 9974, 9976, 9977, 9978, 9979, 9980, 9981, 9982, 9983, 9984, 9985,
       9986, 9987, 9988, 9989, 9990, 9990, 9991, 9992, 9993, 9993, 9994, 9995, 9995, 9996, 9996,
       9997, 9997, 9997, 9998, 9998, 9998, 9999, 9999, 9999, 9999, 10000, 10000, 10000, 10000, 10000,
       10000
    >>

RECURSIVE SinDeg(_)
\* TrigScale * np.sin(np.deg2rad(t / 10)) for -90 <= t / 10 <= 180.
SinDeg(t) ==
    IF t < 0 THEN 0 - SinDeg(0 - t)
    ELSE IF t > 900 THEN SinDeg(1800 - t)
    ELSE SinTable[t + 1]

\* TrigScale * np.cos(np.deg2rad(t / 10)).
CosDeg(t) == SinDeg(900 - t)

\* ------------------------------------------------------------- physics
\* Air density factor k = 1 - a * w[1] / T_0.
AirDensity(w) == Sub(Fin(S), Scale(w[2], a_num, a_den * T_0))

\* s = np.sqrt((w[2]-V[0]) * 2 + (w[3]-V[1]) * 2): the terms are doubled,
\* not squared, so s is NaN whenever the two velocities sum below zero.
RelSpeed(w) ==
    Sqrt(Add(Scale(Sub(w[3], V[1]), 2, 1), Scale(Sub(w[4], V[2]), 2, 1)))

\* - B / m * k ** alpha * dv * s
Drag(k, dv, s) == Neg(Scale(Mul(Mul(PowAlpha(k), dv), s), B_num, B_den * m))

\* The code's f without its k > 0 test: the drag formula on every state.
f_nobranch(w) ==
    LET k == AirDensity(w)
        s == RelSpeed(w)
    IN  << w[3], w[4],
           Drag(k, Sub(w[3], V[1]), s),
           Sub(Drag(k, Sub(w[4], V[2]), s), Fin(g)) >>

\* Right-hand side of the equations of motion.
f(w) ==
    LET k == AirDensity(w)
        s == RelSpeed(w)
    IN  IF Gt(k, Zero)
        THEN << w[3], w[4],
                Drag(k, Sub(w[3], V[1]), s),
                Sub(Drag(k, Sub(w[4], V[2]), s), Fin(g)) >>
        ELSE << w[3], w[4], Zero, Neg(Fin(g)) >>

\* w + (p / q) * s, componentwise.
Axpy(w, p, q, s) == [i \in 1..4 |-> Add(w[i], Scale(s[i], p, q))]

\* One step of the fourth-order Runge-Kutta method.  The right-hand side
\* the program passes is always f.
RK4_step(w, h) ==
    LET s1 == f(w)
        s2 == f(Axpy(w, h, 2, s1))
        s3 == f(Axpy(w, h, 2, s2))
        s4 == f(Axpy(w, h, 1, s3))
        sum == [i \in 1..4 |->
                  Add(Add(Add(s1[i], Scale(s2[i], 2, 1)), Scale(s3[i], 2, 1)),
                      s4[i])]
    IN  Axpy(w, h, 6, sum)

\* Initial state for shooting angle theta (tenths of a degree), speed v0.
shoot(theta, v0) ==
    << Zero, Zero,
       Fin(MulDiv(v0 * S, CosDeg(theta), TrigScale)),
       Fin(MulDiv(v0 * S, SinDeg(theta), TrigScale)) >>

\* ------------------------------------------------------------ the state
VARIABLES
    h,                  \* find_optimal_angle's (and RK4_step's) step length
    pc,                 \* position in the program
    caller,             \* the pass whose loop body called projectile_motion
    idx,                \* position of the coarse for-loop in range(1,90,2)
    theta,              \* coarse loop variable (survives the loop)
    j,                  \* position of the refine for-loop
    theta_small,        \* refine loop variable
    theta_list_smaller, \* the refine candidates
    sim_theta,          \* projectile_motion's parameter theta
    w,                  \* state vector (projectile_motion; f's argument)
    X_list, Y_list,     \* projectile_motion's growing trajectory
    x_list, y_list,     \* the trajectory returned to find_optimal_angle
    m_local,            \* find_optimal_angle's local m, the landing slope
    x_range,            \* interpolated landing range
    record,             \* maximum range so far
    optimal_angle,      \* angle of the maximum range so far
    theta_list,         \* coarse angles tested
    range_list,         \* their ranges
    err,                \* the exception that ended the run, if any
    ret                 \* value returned by a direct call of f or RK4_step

vars == << h, pc, caller, idx, theta, j, theta_small, theta_list_smaller,
           sim_theta, w, X_list, Y_list, x_list, y_list, m_local, x_range,
           record, optimal_angle, theta_list, range_list, err, ret >>

\* A name not yet bound.
None == [c |-> "none", v |-> 0]
NoAngle == 0 - 9999

\* range(start, stop, step) in whole degrees, as tenths of a degree.
DegRange(start, stop, step) ==
    [i \in 1..((stop - start + step - 1) \div step) |->
        10 * (start + (i - 1) * step)]

\* An off-by-one on the stop value: 89 is left out.
CoarseAnglesShort == DegRange(1, 89, 2)

\* for theta in range (1,90,2)
CoarseAngles == DegRange(1, 90, 2)

\* np.linspace(start, stop, num) on tenths of a degree.
linspace(start, stop, num) ==
    [i \in 1..num |-> start + ((i - 1) * (stop - start)) \div (num - 1)]

\* The candidate itself: what the refine loop would pass if it simulated
\* at theta_small.
RefineArgSmall(th, th_small) == th_small

\* The angle the refine loop passes to projectile_motion: theta, the
\* coarse loop's variable.
RefineArg(th, th_small) == th

\* A strict comparison: the first angle of a tie keeps the record.
UpdateCondStrict(xr, rec) == Gt(xr, rec)

\* if x_range >= record
UpdateCond(xr, rec) == Ge(xr, rec)

\* Negative indices that wrap instead of raising.
IndexWraps(list, k) == FALSE

\* list[-k] raises IndexError when the array holds fewer than k items.
IndexError(list, k) == Len(list) < k

\* list[-k]
FromEnd(list, k) ==
    IF k <= Len(list) THEN list[Len(list) - k + 1] ELSE Head(list)

\* Lines 111-112 / 126-127: slope of the last segment and the landing point.
LandingSlope(xs, ys) ==
    Div(Sub(FromEnd(ys, 1), FromEnd(ys, 2)), Sub(FromEnd(xs, 1), FromEnd(xs, 2)))

LandingRange(xs, ys) ==
    Add(Div(Neg(FromEnd(ys, 1)), LandingSlope(xs, ys)), FromEnd(xs, 1))

\* ------------------------------------------------------ find_optimal_angle
\* Lines 103-107: the locals before the coarse loop.
Locals ==
    /\ pc = "coarse_for"
    /\ caller = "none"
    /\ idx = 1
    /\ theta = NoAngle
    /\ j = 0
    /\ theta_small = NoAngle
    /\ theta_list_smaller = << >>
    /\ sim_theta = NoAngle
    /\ w = << None, None, None, None >>
    /\ X_list = << >>
    /\ Y_list = << >>
    /\ x_list = << >>
    /\ y_list = << >>
    /\ m_local = None
    /\ x_range = None
    /\ record = Zero
    /\ optimal_angle = 0
    /\ theta_list = << >>
    /\ range_list = << >>
    /\ err = "none"
    /\ ret = << >>

Init ==
    /\ h \in (0 - NegH)..MaxH
    /\ Locals

\* projectile_motion(h, t) is entered: lines 87-89.
Enter(t) ==
    /\ sim_theta' = t
    /\ w' = shoot(t, v_0)
    /\ X_list' = << >>
    /\ Y_list' = << >>
    /\ pc' = "pm_while"
    /\ UNCHANGED << x_list, y_list >>

\* Trajectories projectile_motion can return, by their final samples: the
\* loop runs at least once and stops at the first sample that is not >= 0.
\* Two samples 10 m apart in height with the last 0, 10 or 20 m further
\* along x; a second sample that is NaN; a single sample.
TrajSamples ==
    { [x |-> << Fin(1000), xl >>, y |-> << Fin(500), Fin(0 - 500) >>] :
          xl \in { Fin(1000), Fin(2000), Fin(3000) } }
    \cup { [x |-> << Fin(1000), NaN >>, y |-> << Fin(500), NaN >>],
           [x |-> << Fin(1000) >>, y |-> << Fin(0 - 500) >>] }

\* projectile_motion(h, t) called and returned with one of TrajSamples.
StubEnter(t) ==
    \E tr \in TrajSamples :
        /\ sim_theta' = t
        /\ X_list' = tr.x
        /\ Y_list' = tr.y
        /\ x_list' = tr.x
        /\ y_list' = tr.y
        /\ pc' = "interp"
        /\ UNCHANGED w

\* x_list, y_list = projectile_motion(h, t)
Call(drawn, t) == IF drawn THEN StubEnter(t) ELSE Enter(t)

\* Lines 90-93: one pass through the while loop.
PMStep ==
    /\ pc = "pm_while"
    /\ Ge(w[2], Zero)
    /\ Len(X_list) < MaxSamples
    /\ w' = RK4_step(w, h)
    /\ X_list' = Append(X_list, w'[1])
    /\ Y_list' = Append(Y_list, w'[2])
    /\ UNCHANGED << h, pc, caller, idx, theta, j, theta_small,
                    theta_list_smaller, sim_theta, x_list, y_list, m_local,
                    x_range, record, optimal_angle, theta_list, range_list,
                    err, ret >>

\* Line 94 (and the assignment at 109 / 124): the loop test fails.
PMReturn ==
    /\ pc = "pm_while"
    /\ ~ Ge(w[2], Zero)
    /\ x_list' = X_list
    /\ y_list' = Y_list
    /\ pc' = "interp"
    /\ UNCHANGED << h, caller, idx, theta, j, theta_small,
                    theta_list_smaller, sim_theta, w, X_list, Y_list,
                    m_local, x_range, record, optimal_angle, theta_list,
                    range_list, err, ret >>

\* Lines 108-109: the next coarse angle, of the first n; the call either
\* runs projectile_motion (Enter) or draws what it returns (StubEnter).
CoarseCallN(n, drawn) ==
    /\ pc = "coarse_for"
    /\ idx <= n
    /\ theta' = CoarseAngles[idx]
    /\ caller' = "coarse"
    /\ Call(drawn, CoarseAngles[idx])
    /\ UNCHANGED << h, idx, j, theta_small, theta_list_smaller, m_local,
                    x_range, record, optimal_angle, theta_list, range_list,
                    err, ret >>

\* Lines 116-118 / 128-130: update records.
UpdateRecords(xr, angle) ==
    IF UpdateCond(xr, record)
    THEN record' = xr /\ optimal_angle' = angle
    ELSE UNCHANGED << record, optimal_angle >>

\* y_list[-2] or x_list[-2] raises IndexError.
Raise ==
    /\ pc' = "error"
    /\ err' = "IndexError"
    /\ UNCHANGED << idx, j, m_local, x_range, record, optimal_angle,
                    theta_list, range_list >>

\* Lines 111-118: the coarse loop's body after the simulation.
CoarseBody ==
    /\ pc = "interp"
    /\ caller = "coarse"
    /\ IF IndexError(y_list, 2) \/ IndexError(x_list, 2)
       THEN Raise
       ELSE /\ m_local' = LandingSlope(x_list, y_list)
            /\ x_range' = LandingRange(x_list, y_list)
            /\ theta_list' = Append(theta_list, theta)
            /\ range_list' = Append(range_list, x_range')
            /\ UpdateRecords(x_range', theta)
            /\ idx' = idx + 1
            /\ pc' = "coarse_for"
            /\ UNCHANGED << j, err >>
    /\ UNCHANGED << h, caller, theta, theta_small, theta_list_smaller,
                    sim_theta, w, X_list, Y_list, x_list, y_list, ret >>

\* Line 122: the coarse loop is over after n angles.
CoarseExitN(n) ==
    /\ pc = "coarse_for"
    /\ idx > n
    /\ theta_list_smaller' = linspace(optimal_angle - 20, optimal_angle + 20, 41)
    /\ j' = 1
    /\ pc' = "refine_for"
    /\ UNCHANGED << h, caller, idx, theta, theta_small, sim_theta, w, X_list,
                    Y_list, x_list, y_list, m_local, x_range, record,
                    optimal_angle, theta_list, range_list, err, ret >>

\* Lines 123-124: the next refine candidate, of the first n.
RefineCallN(n, drawn) ==
    /\ pc = "refine_for"
    /\ j <= n
    /\ theta_small' = theta_list_smaller[j]
    /\ caller' = "refine"
    /\ Call(drawn, RefineArg(theta, theta_list_smaller[j]))
    /\ UNCHANGED << h, idx, theta, j, theta_list_smaller, m_local, x_range,
                    record, optimal_angle, theta_list, range_list, err, ret >>

\* Lines 126-130: the refine loop's body after the simulation.
RefineBody ==
    /\ pc = "interp"
    /\ caller = "refine"
    /\ IF IndexError(y_list, 2) \/ IndexError(x_list, 2)
       THEN Raise
       ELSE /\ m_local' = LandingSlope(x_list, y_list)
            /\ x_range' = LandingRange(x_list, y_list)
            /\ UpdateRecords(x_range', theta_small)
            /\ j' = j + 1
            /\ pc' = "refine_for"
            /\ UNCHANGED << idx, theta_list, range_list, err >>
    /\ UNCHANGED << h, caller, theta, theta_small, theta_list_smaller,
                    sim_theta, w, X_list, Y_list, x_list, y_list, ret >>

\* Line 132: the refine loop is over after n candidates.
ReturnN(n) ==
    /\ pc = "refine_for"
    /\ j > n
    /\ pc' = "done"
    /\ UNCHANGED << h, caller, idx, theta, j, theta_small,
                    theta_list_smaller, sim_theta, w, X_list, Y_list, x_list,
                    y_list, m_local, x_range, record, optimal_angle,
                    theta_list, range_list, err, ret >>

CoarseCall == CoarseCallN(Len(CoarseAngles), FALSE)
CoarseExit == CoarseExitN(Len(CoarseAngles))
RefineCall == RefineCallN(Len(theta_list_smaller), FALSE)
Return == ReturnN(Len(theta_list_smaller))

Next ==
    \/ CoarseCall
    \/ PMStep
    \/ PMReturn
    \/ CoarseBody
    \/ CoarseExit
    \/ RefineCall
    \/ RefineBody
    \/ Return

\* find_optimal_angle(h) for each step length tried.
Spec == Init /\ [][Next]_vars

\* ------------------------------------------------------ the sweep harness
InitEst ==
    /\ h = 1
    /\ Locals

StubCoarseCall == CoarseCallN(EstIters, TRUE)
StubCoarseExit == CoarseExitN(EstIters)
StubRefineCall == RefineCallN(EstIters, TRUE)
StubReturn == ReturnN(EstIters)

NextEst ==
    \/ StubCoarseCall
    \/ CoarseBody
    \/ StubCoarseExit
    \/ StubRefineCall
    \/ RefineBody
    \/ StubReturn

\* find_optimal_angle's two loops over the first EstIters angles of each
\* pass, on trajectories drawn from TrajSamples.
SpecEst == InitEst /\ [][NextEst]_vars

\* ------------------------------------------- direct calls of f, RK4_step
HPure == 1

\* Heights with k > 0, k = 0 and k < 0, and the non-finite ones.
YSamples ==
    { Fin(0), Fin(1000 * S), Fin(4430770), Fin(50000 * S), NaN, PInf, NInf }

VSamples == { Fin(0 - 1000), Zero, Fin(1000), Fin(1000 * S), NaN }

InitPure ==
    /\ h \in 0..HPure
    /\ pc = "pure"
    /\ caller = "none"
    /\ idx = 1
    /\ theta = NoAngle
    /\ j = 0
    /\ theta_small = NoAngle
    /\ theta_list_smaller = << >>
    /\ sim_theta = NoAngle
    /\ \E y \in YSamples : \E vx \in VSamples : \E vy \in VSamples :
          w = << Zero, y, vx, vy >>
    /\ X_list = << >>
    /\ Y_list = << >>
    /\ x_list = << >>
    /\ y_list = << >>
    /\ m_local = None
    /\ x_range = None
    /\ record = Zero
    /\ optimal_angle = 0
    /\ theta_list = << >>
    /\ range_list = << >>
    /\ err = "none"
    /\ ret = << >>

\* ret = f(w)
CallF ==
    /\ pc = "pure"
    /\ ret' = f(w)
    /\ pc' = "f_done"
    /\ UNCHANGED << h, caller, idx, theta, j, theta_small,
                    theta_list_smaller, sim_theta, w, X_list, Y_list, x_list,
                    y_list, m_local, x_range, record, optimal_angle,
                    theta_list, range_list, err >>

\* ret = RK4_step(w, h)
CallRK4 ==
    /\ pc = "pure"
    /\ ret' = RK4_step(w, h)
    /\ pc' = "rk4_done"
    /\ UNCHANGED << h, caller, idx, theta, j, theta_small,
                    theta_list_smaller, sim_theta, w, X_list, Y_list, x_list,
                    y_list, m_local, x_range, record, optimal_angle,
                    theta_list, range_list, err >>

NextPure == CallF \/ CallRK4

\* f and RK4_step applied to the sampled states.
SpecPure == InitPure /\ [][NextPure]_vars

\* ------------------------------------------------------------ the claims
Last(list) == list[Len(list)]

\* C1: in the refine pass the trajectory whose range is compared against
\* the record is the one simulated at the candidate theta_small.
C1_RefineSimulatesCandidate ==
    (caller = "refine" /\ pc \in {"pm_while", "interp"})
        => sim_theta = theta_small

\* C2: whenever projectile_motion returns, the last sample of Y_list is
\* strictly below 0 and every earlier sample is >= 0.
C2_ExitsBelowGround ==
    pc = "interp" =>
        /\ Len(y_list) >= 1
        /\ Gt(Zero, Last(y_list))
        /\ \A i \in 1..(Len(y_list) - 1) : Ge(y_list[i], Zero)

\* C3: with a step length h <= 0 projectile_motion is refused before its
\* loop: it is never inside the loop with a sample appended and the loop
\* test still true.
C3_DegenerateStepRejected ==
    h <= 0 => ~ (pc = "pm_while" /\ Len(X_list) >= 1 /\ Ge(w[2], Zero))

\* C4: last evaluated angle of a tie wins.  Between coarse iterations the
\* record is the largest range evaluated and, if some evaluated angle has
\* exactly that range, optimal_angle is the last such angle; a refine
\* iteration whose range is >= the record (equal included) moves the
\* record to its candidate, and any other leaves the record alone.
C4_MaxIndex(hits) == CHOOSE i \in hits : \A k \in hits : k <= i

C4_CoarseLastWins ==
    LET hits == { i \in 1..Len(range_list) : range_list[i] = record }
    IN  /\ \A i \in 1..Len(range_list) : ~ Gt(range_list[i], record)
        /\ hits # {} => optimal_angle = theta_list[C4_MaxIndex(hits)]

C4_LastMaxWins ==
    /\ [](pc = "coarse_for" => C4_CoarseLastWins)
    /\ [][(pc = "interp" /\ caller = "refine" /\ pc' = "refine_for") =>
            IF Ge(x_range', record)
            THEN record' = x_range' /\ optimal_angle' = theta_small
            ELSE UNCHANGED << record, optimal_angle >>]_vars

\* C4 witness: two coarse angles tie at the record and the later holds it.
C4_TieSeen ==
    /\ pc = "coarse_for"
    /\ \E i, k \in 1..Len(range_list) :
          /\ i < k
          /\ range_list[i] = record
          /\ range_list[k] = record
          /\ optimal_angle = theta_list[k]

\* C5: RK4_step(f, w, 0) returns w, for every finite state w.
C5_ZeroStepIdentity ==
    (pc = "rk4_done" /\ h = 0 /\ \A i \in 1..4 : IsFin(w[i])) => ret = w

C7_ShortTrajectoryRaises ==
    [][(pc = "interp" /\ Len(y_list) < 2) =>
          /\ pc' = "error"
          /\ err' = "IndexError"
          /\ UNCHANGED << m_local, x_range, theta_list, range_list, record,
                          optimal_angle >>]_vars

\* C7 witness: the run ended with IndexError on a one-sample trajectory.
C7_Raised == pc = "error" /\ err = "IndexError" /\ Len(y_list) = 1

\* C8: at the return theta_list is 1, 3, ..., 89 (45 angles) and
\* range_list is as long; every coarse iteration appends its angle theta
\* and the range interpolated from the trajectory simulated at theta; and
\* nothing else, the refine pass included, touches either list.
C8_CoarseIteration == pc = "interp" /\ caller = "coarse"

C8_ReturnedLists ==
    /\ [](Len(theta_list) = Len(range_list))
    /\ [](pc = "done" =>
            /\ Len(theta_list) = 45
            /\ \A i \in 1..45 : theta_list[i] = 10 * (2 * i - 1))
    /\ [][(C8_CoarseIteration /\ pc' = "coarse_for") =>
            /\ sim_theta = theta
            /\ theta_list' = Append(theta_list, theta)
            /\ range_list' = Append(range_list, LandingRange(x_list, y_list))]_vars
    /\ [][(theta_list' # theta_list \/ range_list' # range_list) =>
            C8_CoarseIteration]_vars

\* C8 witness: find_optimal_angle has returned.
C8_Returned == pc = "done" /\ Len(range_list) = 45 /\ Len(theta_list) = 45

\* C9: f(w) starts with (w[2], w[3]); where k <= 0 it ends with (0, -g),
\* whatever the velocities.
C9_ThinAirBranch ==
    pc = "f_done" =>
        /\ ret[1] = w[3]
        /\ ret[2] = w[4]
        /\ Ge(Zero, AirDensity(w)) => (ret[3] = Zero /\ ret[4] = Neg(Fin(g)))

\* C9 witness: f was applied where k <= 0 and s is undefined.
C9_ThinAirNoSpeed ==
    /\ pc = "f_done"
    /\ Ge(Zero, AirDensity(w))
    /\ IsNaN(RelSpeed(w))
    /\ IsFin(w[3])
    /\ IsFin(w[4])

====
